---- MODULE Spec2Model ----
(***************************************************************************)
(* Model of mkgrp.py: the Student record, the DataBase (a dict keyed by    *)
(* full name, iterated in insertion order), check_companions() and         *)
(* assign_groups().  Strings are TLA+ strings, so that full names and      *)
(* group labels are built and compared the way the f-strings,              *)
(* str.startswith and the slice group[:2] do.  The spreadsheet adapter     *)
(* (pandas) and the optional report written by assign_groups(file_path)    *)
(* are outside the model: rows arrive already converted.                   *)
(***************************************************************************)
EXTENDS Integers, Sequences, FiniteSets, TLC

VARIABLES
    GROUP_CHANGES,  \* module-level dict identifier -> macro-group (sheet 'Cambi')
    db,             \* the DataBase: its values, in dict insertion order
    pc,             \* "init" (rows being read), "idle", or "assign_groups" (its loop running)
    idx,            \* position of the running for-loop in db (1-based)
    count_dict,     \* assign_groups' local counter, also its return value
    outcome,        \* how the last call ended: "none", "returned", or the exception raised
    last_op,        \* the method called last: "none" or a method name
    log,            \* logger.error / logger.warning records of the current call
    start,          \* student.group of every student when assign_groups was last called
    rows            \* DataBase.__init__'s local: the converted rows it has read so far

vars == <<GROUP_CHANGES, db, pc, idx, count_dict, outcome, last_op, log, start, rows>>

----------------------------------------------------------------------------
(* Bounds of the model.                                                    *)

MaxStudents == 3

MaxRows == 1

MaxIdentifier == 5

----------------------------------------------------------------------------
(* Module-level constants of mkgrp.py.                                     *)

\* Python's None; str(None) is "None" (see Str).
None == "<None>"

MACRO_GROUPS == <<"A1", "B1", "A2", "B2">>

\* range(1, 4) and range(1, 3) of line 29.
NumRooms == 3

NumTurns == 2

\* The list comprehension of line 29: macro-groups outermost, then rooms
\* 1..3, then turns 1..2; the k-th label is built as the f-string builds it.
GROUPS ==
    [k \in 1..(Len(MACRO_GROUPS) * NumRooms * NumTurns) |->
        MACRO_GROUPS[((k - 1) \div (NumRooms * NumTurns)) + 1] \o "-"
            \o ToString((((k - 1) \div NumTurns) % NumRooms) + 1) \o "-"
            \o ToString(((k - 1) % NumTurns) + 1)]

GroupSet == {GROUPS[k] : k \in DOMAIN GROUPS}

----------------------------------------------------------------------------
(* Python string helpers.                                                  *)

\* str(x) as an f-string field renders it.
Str(x) == IF x = None THEN "None" ELSE x

\* s.startswith(prefix)
startswith(s, prefix) ==
    /\ Len(s) >= Len(prefix)
    /\ SubSeq(s, 1, Len(prefix)) = prefix

\* s[:n]
Slice(s, n) == IF Len(s) <= n THEN s ELSE SubSeq(s, 1, n)

----------------------------------------------------------------------------
(* class Student.                                                          *)

\* The dataclass constructor: eight fields from the row, group defaults to None.
Student(name, surname, identifier, email, macro_group, c_name, c_surname, notes) ==
    [name |-> name, surname |-> surname, identifier |-> identifier,
     email |-> email, macro_group |-> macro_group,
     companion_name |-> c_name, companion_surname |-> c_surname,
     notes |-> notes, group |-> None]

\* Student.full_name
full_name(s) == Str(s.name) \o " " \o Str(s.surname)

\* Student.companion_full_name: None only when BOTH fields are None.
companion_full_name(s) ==
    IF s.companion_name = None /\ s.companion_surname = None
    THEN None
    ELSE Str(s.companion_name) \o " " \o Str(s.companion_surname)

\* Student.has_companion
has_companion(s) == companion_full_name(s) # None

\* Faulty variant of expected_group: the override table is ignored.
expected_group_no_override(identifier, table) ==
    MACRO_GROUPS[(identifier % 4) + 1]

\* The try/except of Student.__post_init__: the override if the identifier
\* is a key of GROUP_CHANGES, else MACRO_GROUPS[identifier % 4] (0-based).
expected_group(identifier, table) ==
    IF identifier \in DOMAIN table
    THEN table[identifier]
    ELSE MACRO_GROUPS[(identifier % 4) + 1]

\* Student.__post_init__: what it logs (it changes no field, raises nothing).
post_init(s, table) ==
    LET expected == expected_group(s.identifier, table)
    IN  IF s.macro_group # expected
        THEN << <<"ERROR", "Group for", full_name(s), Str(s.macro_group), expected>> >>
        ELSE << >>

----------------------------------------------------------------------------
(* class DataBase(dict).                                                   *)

\* key in self
HasKey(d, key) == \E i \in DOMAIN d : full_name(d[i]) = key

\* position of self[key] among self.values()
KeyIndex(d, key) == CHOOSE i \in DOMAIN d : full_name(d[i]) = key

\* self[student.full_name()] = student: a new key is appended, an existing
\* key keeps its position and gets the new value.
SetItem(d, student) ==
    IF HasKey(d, full_name(student))
    THEN [d EXCEPT ![KeyIndex(d, full_name(student))] = student]
    ELSE Append(d, student)

\* One iteration of the loop of DataBase.__init__ over a converted row.
RowStudent(row) ==
    Student(row.Nome, row.Cognome, row.Matricola, row.Email, row.Gruppo,
            row.NomeCompagno, row.CognomeCompagno, row.Note)

RowLog(row, table) ==
    LET student == RowStudent(row)
    IN  post_init(student, table) \o
        (IF row.Name # full_name(student)
         THEN << <<"WARNING", "Possible name mismach", row.Name, full_name(student)>> >>
         ELSE << >>)

\* DataBase.__init__ over a sequence of rows: the resulting dict and log.
RECURSIVE DataBaseInit(_, _)
DataBaseInit(rs, table) ==
    IF rs = << >>
    THEN [db |-> << >>, log |-> << >>]
    ELSE LET n == Len(rs)
             before == DataBaseInit(SubSeq(rs, 1, n - 1), table)
         IN  [db |-> SetItem(before.db, RowStudent(rs[n])),
              log |-> before.log \o RowLog(rs[n], table)]

----------------------------------------------------------------------------
(* DataBase.check_companions: the body of its for-loop.                    *)

\* Faulty variant of check_body: the lookup self[companion_full_name] without the
\* try/except, so a missing companion raises KeyError out of the method.
check_body_unguarded(d, i) ==
    LET student == d[i]
        cfn == companion_full_name(student)
    IN  IF cfn = None
        THEN [log |-> << >>, raised |-> FALSE]
        ELSE IF ~HasKey(d, cfn)
        THEN [log |-> << >>, raised |-> TRUE]
        ELSE [log |-> << >>, raised |-> FALSE]

\* One iteration over student d[i]: the records it logs, and whether an
\* exception leaves the method (never: the KeyError is caught).
check_body(d, i) ==
    LET student == d[i]
        cfn == companion_full_name(student)
    IN  IF cfn = None
        THEN [log |-> << >>, raised |-> FALSE]
        ELSE IF ~HasKey(d, cfn)
        THEN [log |-> << <<"ERROR", "Cannot find", cfn, full_name(student)>> >>,
              raised |-> FALSE]
        ELSE LET companion == d[KeyIndex(d, cfn)]
             IN  IF companion_full_name(companion) # full_name(student)
                 THEN [log |-> << <<"ERROR", "Companion mismatch",
                                    full_name(student), cfn,
                                    Str(companion_full_name(companion))>> >>,
                       raised |-> FALSE]
                 ELSE IF student.macro_group # companion.macro_group
                 THEN [log |-> << <<"ERROR", "Group mismatch",
                                    full_name(student), Str(student.macro_group),
                                    full_name(companion), Str(companion.macro_group)>> >>,
                       raised |-> FALSE]
                 ELSE [log |-> << >>, raised |-> FALSE]

\* The for-loop of check_companions from student i on (lines 147-160): an
\* exception ends it, anything else goes on to the next student.
RECURSIVE check_loop(_, _)
check_loop(d, i) ==
    IF i > Len(d)
    THEN [log |-> << >>, raised |-> FALSE]
    ELSE LET r == check_body(d, i)
         IN  IF r.raised
             THEN r
             ELSE LET rest == check_loop(d, i + 1)
                  IN  [log |-> r.log \o rest.log, raised |-> rest.raised]

----------------------------------------------------------------------------
(* DataBase.dict_subset and the min() of assign_groups.  A dict is a       *)
(* function on its keys; count_dict is built in GROUPS order and a dict    *)
(* comprehension keeps the order of the dict it filters, so the keys of    *)
(* any such dict iterate in GROUPS order.                                  *)

\* key.startswith(None) raises TypeError: dict_subset raises it on the first
\* key of dict_ when macro_group is None.
dict_subset_raises(dict_, macro_group) ==
    macro_group = None /\ DOMAIN dict_ # {}

\* The dict comprehension of dict_subset, for a macro_group that is a string.
dict_subset(dict_, macro_group) ==
    [key \in {k \in DOMAIN dict_ : startswith(k, macro_group)} |-> dict_[key]]

\* list(dict_): its keys in iteration order.
Keys(dict_) == SelectSeq(GROUPS, LAMBDA g : g \in DOMAIN dict_)

\* min(keys, key=dict_.get) from position i on, best being the smallest so
\* far: a later key replaces it only when strictly smaller.
RECURSIVE MinScan(_, _, _, _)
MinScan(keys, dict_, best, i) ==
    IF i > Len(keys)
    THEN best
    ELSE MinScan(keys, dict_,
                 IF dict_[keys[i]] < dict_[best] THEN keys[i] ELSE best, i + 1)

\* Faulty variant of min_key: max(dict_, key=dict_.get), the first fullest group.
RECURSIVE MaxScan(_, _, _, _)
MaxScan(keys, dict_, best, i) ==
    IF i > Len(keys)
    THEN best
    ELSE MaxScan(keys, dict_,
                 IF dict_[keys[i]] > dict_[best] THEN keys[i] ELSE best, i + 1)

max_key(dict_) == MaxScan(Keys(dict_), dict_, Keys(dict_)[1], 2)

\* Faulty variant of min_key: ties go to the last smallest key (<= for <).
RECURSIVE MinScanLast(_, _, _, _)
MinScanLast(keys, dict_, best, i) ==
    IF i > Len(keys)
    THEN best
    ELSE MinScanLast(keys, dict_,
                     IF dict_[keys[i]] <= dict_[best] THEN keys[i] ELSE best, i + 1)

min_key_last(dict_) == MinScanLast(Keys(dict_), dict_, Keys(dict_)[1], 2)

\* min(dict_, key=dict_.get) on a non-empty dict.
min_key(dict_) == MinScan(Keys(dict_), dict_, Keys(dict_)[1], 2)

----------------------------------------------------------------------------
(* DataBase.assign_groups: the body of its for-loop.                       *)

\* One iteration over student d[i] with counter cd: the dict and the counter
\* afterwards, and the exception that left the method, if any: "none", the
\* TypeError of dict_subset (line 166) for a macro_group that is None, the
\* ValueError of min() (line 176) when no key starts with the macro_group,
\* the failed assert of line 177, or the KeyError of line 182.  The first
\* three leave the student unassigned and the counter as it was.
assign_body(d, cd, i) ==
    LET student == d[i]
    IN  IF student.group # None
        THEN [db |-> d, count_dict |-> cd, exc |-> "none"]
        ELSE IF dict_subset_raises(cd, student.macro_group)
        THEN [db |-> d, count_dict |-> cd, exc |-> "TypeError"]
        ELSE IF DOMAIN dict_subset(cd, student.macro_group) = {}
        THEN [db |-> d, count_dict |-> cd, exc |-> "ValueError"]
        ELSE
        LET _subdict == dict_subset(cd, student.macro_group)
            group == min_key(_subdict)
            d1 == [d EXCEPT ![i].group = group]
            cd1 == [cd EXCEPT ![group] = @ + 1]
            cfn == companion_full_name(student)
        IN  IF Slice(group, 2) # student.macro_group
            THEN [db |-> d, count_dict |-> cd, exc |-> "AssertionError"]
            ELSE IF ~has_companion(student)
            THEN [db |-> d1, count_dict |-> cd1, exc |-> "none"]
            ELSE IF ~HasKey(d1, cfn)
            THEN [db |-> d1, count_dict |-> cd1, exc |-> "KeyError"]
            ELSE LET c == KeyIndex(d1, cfn)
                 IN  IF d1[c].group # None
                     THEN [db |-> d1, count_dict |-> cd1, exc |-> "none"]
                     ELSE [db |-> [d1 EXCEPT ![c].group = group],
                           count_dict |-> [cd1 EXCEPT ![group] = @ + 1],
                           exc |-> "none"]

----------------------------------------------------------------------------
(* Inputs.                                                                 *)

FirstNames == <<"Ada", "Bo", "Cy", "Di", "Ed", "Flo">>

FamilyName == "Rossi"

\* Declared macro-groups of the rosters explored.
InputMacroGroups == {"A1", "B1"}

\* Cells of the macro-group column that name no macro-group: a label that
\* is none of the four, an empty cell, and a label cut short.
BadMacroGroups == {"C1", None, "A"}

\* The two companion cells of a row in a roster of n students: empty, any
\* student of the roster (the student itself included), a person who is not
\* in the roster, and only the first cell filled.
CompanionChoices(n) ==
    {<<None, None>>, <<"Zed", FamilyName>>, <<FirstNames[1], None>>}
        \cup {<<FirstNames[j], FamilyName>> : j \in 1..n}

\* The macro-group and companion cells of a row: a macro-group with any
\* companion cells, or no macro-group and empty companion cells.
CellChoices(n) ==
    (InputMacroGroups \X CompanionChoices(n))
        \cup (BadMacroGroups \X {<<None, None>>})

Row(name, identifier, macro_group, companion, display) ==
    [Name |-> display, Nome |-> name, Cognome |-> FamilyName,
     Matricola |-> identifier, Email |-> name \o "@unipi.it",
     Gruppo |-> macro_group, NomeCompagno |-> companion[1],
     CognomeCompagno |-> companion[2], Note |-> None]

\* A roster of n rows with distinct names; c[i] is row i's declared
\* macro-group and companion cells.
Roster(n, c) ==
    [i \in 1..n |-> Row(FirstNames[i], i, c[i][1], c[i][2],
                        FirstNames[i] \o " " \o FamilyName)]

\* GROUP_CHANGES tables: empty, or one identifier moved to a macro-group.
OverrideTables ==
    {<< >>} \cup
    {[k \in {id} |-> MACRO_GROUPS[m]] : id \in 1..MaxIdentifier, m \in DOMAIN MACRO_GROUPS}

ZeroCounts == [grp \in GroupSet |-> 0]

GroupsOf(d) == [i \in DOMAIN d |-> d[i].group]

----------------------------------------------------------------------------
(* Construction: DataBase.__init__ reading rows one at a time.             *)

InitStudent ==
    /\ GROUP_CHANGES \in OverrideTables
    /\ db = << >>
    /\ rows = << >>
    /\ log = << >>
    /\ pc = "init"
    /\ idx = 0
    /\ count_dict = ZeroCounts
    /\ outcome = "none"
    /\ last_op = "none"
    /\ start = << >>

\* One iteration of the loop of DataBase.__init__ (lines 137-142).
ReadRow ==
    /\ pc = "init"
    /\ Len(rows) < MaxRows
    /\ \E identifier \in 1..MaxIdentifier,
          declared \in {MACRO_GROUPS[m] : m \in DOMAIN MACRO_GROUPS} \cup BadMacroGroups,
          display \in {FirstNames[Len(rows) + 1] \o " " \o FamilyName, "Someone Else"} :
          LET row == Row(FirstNames[Len(rows) + 1], identifier, declared,
                         <<None, None>>, display)
          IN  /\ rows' = Append(rows, row)
              /\ db' = SetItem(db, RowStudent(row))
              /\ log' = log \o RowLog(row, GROUP_CHANGES)
    /\ start' = GroupsOf(db')
    /\ UNCHANGED <<GROUP_CHANGES, pc, idx, count_dict, outcome, last_op>>

NextStudent == ReadRow

SpecStudent == InitStudent /\ [][NextStudent]_vars

----------------------------------------------------------------------------
(* The program after construction: db = DataBase(), then method calls.     *)
(* The rows are a local of the constructor and are gone by then.           *)

Init ==
    /\ GROUP_CHANGES = << >>
    /\ \E n \in 1..MaxStudents :
          \E c \in [1..n -> CellChoices(n)] :
             LET built == DataBaseInit(Roster(n, c), GROUP_CHANGES)
             IN  /\ db = built.db
                 /\ log = built.log
    /\ rows = << >>
    /\ pc = "idle"
    /\ idx = 0
    /\ count_dict = ZeroCounts
    /\ outcome = "none"
    /\ last_op = "none"
    /\ start = GroupsOf(db)

\* db.check_companions(): the whole call.
CheckCompanions ==
    /\ pc = "idle"
    /\ LET r == check_loop(db, 1)
       IN  /\ log' = r.log
           /\ outcome' = IF r.raised THEN "KeyError" ELSE "returned"
    /\ last_op' = "check_companions"
    /\ UNCHANGED <<GROUP_CHANGES, db, pc, idx, count_dict, start, rows>>

\* db.assign_groups() is called: line 171.
CallAssignGroups ==
    /\ pc = "idle"
    /\ pc' = "assign_groups"
    /\ last_op' = "assign_groups"
    /\ outcome' = "none"
    /\ idx' = 1
    /\ log' = << >>
    /\ count_dict' = [grp \in GroupSet |-> 0]
    /\ start' = GroupsOf(db)
    /\ UNCHANGED <<GROUP_CHANGES, db, rows>>

\* One iteration of its for-loop (lines 172-187).
AssignIter ==
    /\ pc = "assign_groups"
    /\ idx <= Len(db)
    /\ LET r == assign_body(db, count_dict, idx)
       IN  /\ db' = r.db
           /\ count_dict' = r.count_dict
           /\ IF r.exc # "none"
              THEN /\ pc' = "idle"
                   /\ outcome' = r.exc
                   /\ idx' = 0
              ELSE /\ idx' = idx + 1
                   /\ UNCHANGED <<pc, outcome>>
    /\ UNCHANGED <<GROUP_CHANGES, last_op, log, start, rows>>

\* The loop is exhausted: count_dict is returned (line 211).
AssignReturn ==
    /\ pc = "assign_groups"
    /\ idx > Len(db)
    /\ pc' = "idle"
    /\ outcome' = "returned"
    /\ idx' = 0
    /\ UNCHANGED <<GROUP_CHANGES, db, count_dict, last_op, log, start, rows>>

Next ==
    \/ CheckCompanions
    \/ CallAssignGroups
    \/ AssignIter
    \/ AssignReturn

Spec == Init /\ [][Next]_vars

----------------------------------------------------------------------------
(* Vocabulary of the properties.                                           *)

Students == DOMAIN db

\* assign_groups has run and is over (it returned or raised).
AssignOver == pc = "idle" /\ last_op = "assign_groups"

\* No student was assigned when assign_groups was last called (or it has
\* not been called yet): the roster was initially unassigned.
FirstRun == \A i \in DOMAIN start : start[i] = None

MacroGroupSet == {MACRO_GROUPS[k] : k \in DOMAIN MACRO_GROUPS}

\* Every student declares one of the four macro-groups.
WellDeclared == \A i \in Students : db[i].macro_group \in MacroGroupSet

\* The turn-groups of macro-group m in enumeration order.
TurnOrder(m) ==
    <<m \o "-1-1", m \o "-1-2", m \o "-2-1", m \o "-2-2", m \o "-3-1", m \o "-3-2">>

\* Number of students whose group is g.
Occupancy(g) == Cardinality({i \in Students : db[i].group = g})

BothCompanionFields(s) == s.companion_name # None /\ s.companion_surname # None

OneCompanionField(s) ==
    (s.companion_name = None) # (s.companion_surname = None)

\* Student i names, with both fields, somebody who is not in the roster.
MissingCompanion(i) ==
    /\ BothCompanionFields(db[i])
    /\ \A j \in Students :
          full_name(db[j]) # db[i].companion_name \o " " \o db[i].companion_surname

\* Student i names student j.
Names(i, j) ==
    /\ BothCompanionFields(db[i])
    /\ db[i].companion_name = db[j].name
    /\ db[i].companion_surname = db[j].surname

----------------------------------------------------------------------------
(* C1. After assign_groups has run, every student has a group, and that    *)
(* group's macro-group prefix is the student's declared macro-group.       *)
(* Stated as claimed, for rosters declaring only the four macro-groups and *)
(* a call that returns; it fails: a companion of another macro-group is    *)
(* put in the referencing student's turn-group.                            *)
C1_AssignedInOwnMacroGroup ==
    (AssignOver /\ outcome = "returned" /\ WellDeclared) =>
        \A i \in Students :
            /\ db[i].group # None
            /\ startswith(db[i].group, db[i].macro_group)

(* C2. After assign_groups has returned, two students who name each other  *)
(* and declare the same macro-group hold the same group.  Stated as        *)
(* claimed; it fails when a third student naming one of them comes first.  *)
C2_MutualCompanionsTogether ==
    (AssignOver /\ outcome = "returned") =>
        \A i, j \in Students :
            (i # j /\ Names(i, j) /\ Names(j, i)
                /\ db[i].macro_group = db[j].macro_group)
            => db[i].group = db[j].group

(* C3. When some student names a companion who is not in the roster,       *)
(* assign_groups still returns normally with every student assigned.       *)
(* Stated as claimed, for rosters declaring only the four macro-groups; it *)
(* fails: line 182 raises KeyError.                                        *)
C3_MissingCompanionSkipped ==
    (AssignOver /\ WellDeclared /\ \E i \in Students : MissingCompanion(i)) =>
        /\ outcome = "returned"
        /\ \A i \in Students : db[i].group # None

(* C4. A call of assign_groups made after an earlier call leaves every     *)
(* student's group as the earlier call left it.  Stated as claimed, for    *)
(* rosters declaring only the four macro-groups, whose companion cells are *)
(* both filled or both empty, and for a later call that returns; it fails  *)
(* when the earlier call was ended by the KeyError of C3: the later call   *)
(* assigns the students it left out.                                       *)
C4_SecondCallChangesNothing ==
    (AssignOver /\ outcome = "returned" /\ ~FirstRun /\ WellDeclared
        /\ \A i \in Students : ~OneCompanionField(db[i]))
    => GroupsOf(db) = start

\* The half of C4 that holds: no step changes a group that is already set.
AssignedGroupIsKept ==
    [][\A i \in Students : db[i].group # None => db'[i].group = db[i].group]_vars

\* The turn-groups of the macro-group of turn-group g.
Siblings(g) == {h \in GroupSet : Slice(h, 2) = Slice(g, 2)}

(* C5. On an initially unassigned roster, during and after the pass, the   *)
(* largest and the smallest occupancy among the turn-groups of one         *)
(* macro-group differ by at most 2: no turn-group holding a student        *)
(* exceeds a turn-group of the same macro-group by more than 2.  (The      *)
(* largest occupancy is that of a group holding a student, unless all are  *)
(* empty; a group holding at most 2 exceeds no group by more than 2.)      *)
C5_Balance ==
    FirstRun =>
        \A i \in Students :
            db[i].group # None =>
                \/ Occupancy(db[i].group) <= 2
                \/ \A h \in Siblings(db[i].group) :
                       Occupancy(db[i].group) - Occupancy(h) <= 2

C5_Witness ==
    /\ AssignOver /\ outcome = "returned" /\ FirstRun
    /\ Len(db) = 3
    /\ Occupancy("A1-1-1") = 2
    /\ Occupancy("A1-1-2") = 1
    /\ Occupancy("A1-3-2") = 0

(* C6. The counter assign_groups returns gives, for every turn-group, the  *)
(* number of students whose group it is, on a first call and on a later    *)
(* one.  Stated as claimed, for rosters in which no call can raise; it     *)
(* fails for a call made when students are already assigned: the counter   *)
(* restarts from 0 and they are not counted.                               *)
C6_ReturnedCountsAreOccupancy ==
    (AssignOver /\ outcome = "returned" /\ WellDeclared
        /\ \A i \in Students : ~has_companion(db[i])) =>
        \A g \in GroupSet : count_dict[g] = Occupancy(g)

\* Position of the first smallest count among the turn-groups of m.
FirstMin(cd, m) ==
    CHOOSE k \in 1..6 :
        /\ \A j \in 1..6 : cd[TurnOrder(m)[k]] <= cd[TurnOrder(m)[j]]
        /\ \A j \in 1..(k - 1) : cd[TurnOrder(m)[j]] > cd[TurnOrder(m)[k]]

\* Student i takes part in no pairing: no companion cell filled, and named
\* by nobody.
Unpaired(i) ==
    /\ db[i].companion_name = None
    /\ db[i].companion_surname = None
    /\ \A j \in Students : ~Names(j, i)

\* Number of students of i's macro-group up to and including i.
Rank(i) ==
    Cardinality({j \in 1..i : db[j].macro_group = db[i].macro_group})

(* C7. A step of the pass on a student that is not yet assigned and        *)
(* declares one of the four macro-groups gives it the turn-group of that   *)
(* macro-group with the smallest count, the first in enumeration order     *)
(* among equals (a student declaring anything else is given no group by    *)
(* such a step).  Hence, in a pass over an initially unassigned roster,    *)
(* when the students of a macro-group are all unpaired and at most 6, the  *)
(* k-th of them in roster order, once assigned, holds the k-th turn-group  *)
(* of the enumeration.                                                     *)
C7_MinSelection ==
    [][ /\ (pc = "assign_groups" /\ idx <= Len(db) /\ db[idx].group = None)
            => IF db[idx].macro_group \in MacroGroupSet
               THEN db'[idx].group =
                        TurnOrder(db[idx].macro_group)[FirstMin(count_dict, db[idx].macro_group)]
               ELSE db'[idx].group = None
        /\ (FirstRun /\ pc = "assign_groups")
            => \A m \in MacroGroupSet :
                  ( /\ \A i \in Students : db[i].macro_group = m => Unpaired(i)
                    /\ Cardinality({i \in Students : db[i].macro_group = m}) <= 6 )
                  => \A i \in Students :
                        (db'[i].macro_group = m /\ db'[i].group # None)
                        => db'[i].group = TurnOrder(m)[Rank(i)]
      ]_vars

C7_Witness ==
    /\ AssignOver /\ outcome = "returned" /\ FirstRun
    /\ Len(db) = 3
    /\ \A i \in Students : db[i].macro_group = "B1" /\ Unpaired(i)
    /\ GroupsOf(db) = <<"B1-1-1", "B1-1-2", "B1-2-1">>

\* Student i is one check_companions reports: its companion is missing,
\* does not name it back, or declares another macro-group.
Flagged(i) ==
    /\ companion_full_name(db[i]) # None
    /\ \/ \A j \in Students : full_name(db[j]) # companion_full_name(db[i])
       \/ \E j \in Students :
            /\ full_name(db[j]) = companion_full_name(db[i])
            /\ \/ companion_full_name(db[j]) # full_name(db[i])
               \/ db[j].macro_group # db[i].macro_group

\* The student an error record of check_companions is about.
Reporter(rec) == IF rec[2] = "Cannot find" THEN rec[4] ELSE rec[3]

(* C8. A call of check_companions changes neither the roster nor any field *)
(* of any student nor the counter, always returns (no exception leaves     *)
(* it), and reports every student it has to report, so it went through the *)
(* whole roster.  (Only check_companions leads from idle to idle.)         *)
C8_CheckCompanionsReadOnly ==
    [][ (pc = "idle" /\ pc' = "idle") =>
            /\ last_op' = "check_companions"
            /\ db' = db
            /\ count_dict' = count_dict
            /\ outcome' = "returned"
            /\ Len(log') = Cardinality({i \in Students : Flagged(i)})
            /\ \A i \in Students :
                  Flagged(i) <=>
                      \E k \in DOMAIN log' : Reporter(log'[k]) = full_name(db[i])
      ]_vars

C8_Witness ==
    /\ pc = "idle" /\ last_op = "check_companions" /\ outcome = "returned"
    /\ Len(db) = 3
    /\ MissingCompanion(1)
    /\ Names(2, 3) /\ ~Names(3, 2)
    /\ Len(log) = 2
    /\ db[1].group # None

(* C9. A student with exactly one of the two companion fields set is      *)
(* treated as having no companion: in a roster declaring only the four     *)
(* macro-groups where no student has both fields set, check_companions has *)
(* nobody to look up and reports nothing, and assign_groups looks nobody   *)
(* up and returns.  Stated as claimed; it fails: companion_full_name is    *)
(* None only when both fields are None, so "Ada None" is looked up.        *)
C9_PartialCompanionIsNoCompanion ==
    (WellDeclared /\ \A i \in Students : ~BothCompanionFields(db[i])) =>
        /\ (pc = "idle" /\ last_op = "check_companions") => log = << >>
        /\ AssignOver => outcome = "returned"

\* MACRO_GROUPS[identifier mod 4] in the order A1, B1, A2, B2.
DefaultMacroGroup(identifier) ==
    CASE identifier % 4 = 0 -> "A1"
      [] identifier % 4 = 1 -> "B1"
      [] identifier % 4 = 2 -> "A2"
      [] identifier % 4 = 3 -> "B2"

ExpectedMacroGroup(identifier) ==
    IF identifier \in DOMAIN GROUP_CHANGES
    THEN GROUP_CHANGES[identifier]
    ELSE DefaultMacroGroup(identifier)

(* C10. Every row read yields a Student keeping the row's identifier and   *)
(* declared macro-group, whatever is declared, and the log holds the       *)
(* mismatch error for that student, naming the declared macro-group (as    *)
(* the message renders it) and the expected one (the override of the       *)
(* identifier if there is one, else the default by identifier mod 4),      *)
(* exactly when declared and expected differ.                              *)
C10_OverrideValidation ==
    /\ Len(db) = Len(rows)
    /\ \A k \in DOMAIN rows :
          LET declared == rows[k].Gruppo
              expected == ExpectedMacroGroup(rows[k].Matricola)
              who == rows[k].Nome \o " " \o rows[k].Cognome
          IN  /\ db[k].macro_group = declared
              /\ db[k].identifier = rows[k].Matricola
              /\ declared # expected <=>
                    \E j \in DOMAIN log : log[j][1] = "ERROR" /\ log[j][3] = who
              /\ \A j \in DOMAIN log :
                    (log[j][1] = "ERROR" /\ log[j][3] = who)
                    => log[j] = <<"ERROR", "Group for", who, Str(declared), expected>>

C10_Witness ==
    /\ pc = "init"
    /\ Len(rows) = 1
    /\ rows[1].Matricola = 5
    /\ GROUP_CHANGES = [k \in {5} |-> "A2"]
    /\ rows[1].Gruppo = "B1"
    /\ <<"ERROR", "Group for", "Ada Rossi", "B1", "A2">> \in {log[j] : j \in DOMAIN log}

====
